---------------------------- MODULE Spec2Model ----------------------------
(***************************************************************************)
(* Model of the Chef API server, src/index.js.                             *)
(*                                                                         *)
(* The file holds two copies of the server.  Lines 1-284 are the copy that *)
(* connects on demand (connectToMongo, isConnected) and is the one         *)
(* modelled here.  Lines 286-527 are an older copy whose route handlers    *)
(* are the same statements without the connect step; its check-then-insert *)
(* in POST /api/users (lines 354-366) is the sequence modelled by          *)
(* UsersFindOneByEmailDone and UsersInsertOneDone.                         *)
(*                                                                         *)
(* A request handler is an async function: it runs without interruption    *)
(* up to an await of client.connect() or of a store operation, and other   *)
(* handlers run while it is suspended there.  Each action below is one     *)
(* such uninterrupted piece.  The store (MongoDB) and its driver are the   *)
(* environment: an awaited call completes with a result or throws.         *)
(***************************************************************************)
EXTENDS Integers, Sequences, FiniteSets, TLC

VARIABLES
    isConnected,   \* the module-level flag of line 58
    connectCalls,  \* number of invocations of client.connect() so far
    server,        \* progress of start(): "serverless" when VERCEL = '1'
    users,         \* the users collection, in insertion order
    items,         \* the items collection, in insertion order
    nextId,        \* counter behind the ObjectIds the store assigns
    now,           \* the clock read by new Date()
    pc,            \* per handler slot: where the handler is suspended
    req,           \* per handler slot: the request being handled
    doc,           \* per handler slot: the local `user` / `doc` object
    ops,           \* per handler slot: the store calls the request issued
    resp,          \* per handler slot: the responses sent on `res`
    quota,         \* number of requests the model still accepts
    hist           \* completed requests, recorded by the sequential observer

vars == <<isConnected, connectCalls, server, users, items, nextId, now,
          pc, req, doc, ops, resp, quota, hist>>

---------------------------------------------------------------------------
(* Bounds of the model. *)

NumSlots == 2
MaxRequests == 2
SeqRequests == 3
ListRequests == 2
MaxClock == 1
FirstId == 10
ListSlack == 1

Procs == 1..NumSlots

---------------------------------------------------------------------------
(* JavaScript values, as far as the handlers inspect them. *)

Undef == [t |-> "undefined"]
Null == [t |-> "null"]
Str(s) == [t |-> "string", s |-> s]
Num(n) == [t |-> "number", n |-> n]
Bool(b) == [t |-> "boolean", b |-> b]
Arr(a) == [t |-> "array", a |-> a]

\* typeof v
TypeOf(v) ==
    CASE v.t = "null" -> "object"
      [] v.t = "array" -> "object"
      [] OTHER -> v.t

\* ToBoolean(v): the test behind !v, v || d and Boolean(v)
Truthy(v) ==
    CASE v.t = "undefined" -> FALSE
      [] v.t = "null" -> FALSE
      [] v.t = "string" -> v.s # ""
      [] v.t = "number" -> v.n # 0
      [] v.t = "boolean" -> v.b
      [] OTHER -> TRUE

\* v || d
OrElse(v, d) == IF Truthy(v) THEN v ELSE d

\* Array.isArray(v)
IsArray(v) == v.t = "array"

---------------------------------------------------------------------------
(* ObjectId of the mongodb driver: 12 bytes, written as 24 hex digits.     *)
(* An ObjectId is modelled as its 24 nibbles, an id string as its 24       *)
(* characters.                                                             *)

OidLen == 24
LowerHex == <<"0","1","2","3","4","5","6","7","8","9","a","b","c","d","e","f">>
UpperHex == <<"0","1","2","3","4","5","6","7","8","9","A","B","C","D","E","F">>

IsHexChar(c) == \E i \in 1..16 : LowerHex[i] = c \/ UpperHex[i] = c
HexVal(c) == (CHOOSE i \in 1..16 : LowerHex[i] = c \/ UpperHex[i] = c) - 1

\* ObjectIdIsValid testing the length alone
ObjectIdIsValid_LengthOnly(id) == Len(id) = OidLen

\* ObjectId.isValid(id) for a string id
ObjectIdIsValid(id) ==
    /\ Len(id) = OidLen
    /\ \A i \in 1..Len(id) : IsHexChar(id[i])

\* new ObjectId(id) for a valid string id
NewObjectId(id) == [i \in 1..OidLen |-> HexVal(id[i])]

\* ObjectId.prototype.toHexString / toJSON
ToHexString(oid) == [i \in 1..OidLen |-> LowerHex[oid[i] + 1]]

\* the n-th ObjectId the store hands out (driver-generated, never repeated)
GenObjectId(n) ==
    [i \in 1..OidLen |->
        IF i = OidLen THEN n % 16
        ELSE IF i = OidLen - 1 THEN (n \div 16) % 16
        ELSE 0]

---------------------------------------------------------------------------
(* Collections: sequences of documents in insertion order. *)

\* { _id: id, ...d }
WithId(id, d) ==
    [f \in {"_id"} \cup DOMAIN d |-> IF f = "_id" THEN id ELSE d[f]]

\* res.json(document): the ObjectId is serialised as its hex string
ToJSON(d) == [d EXCEPT !._id = ToHexString(d._id)]

\* MatchEmail with the filter on the wrong field
MatchEmail_ByName(coll, email) == {i \in 1..Len(coll) : coll[i].name = email}

\* indexes of the documents of coll matching { email }
MatchEmail(coll, email) == {i \in 1..Len(coll) : coll[i].email = email}

\* indexes of the documents of coll matching { _id: oid }
MatchId(coll, oid) == {i \in 1..Len(coll) : coll[i]._id = oid}

Min(S) == CHOOSE x \in S : \A y \in S : x <= y

\* coll without its i-th document
RemoveAt(coll, i) ==
    [j \in 1..(Len(coll) - 1) |-> IF j < i THEN coll[j] ELSE coll[j + 1]]

\* DeleteOne dropping the first document instead of the matching one
DeleteOne_First(coll, oid) ==
    IF MatchId(coll, oid) = {} THEN coll ELSE Tail(coll)

\* collection.deleteOne({ _id: oid }): the collection afterwards
DeleteOne(coll, oid) ==
    IF MatchId(coll, oid) = {} THEN coll
    ELSE RemoveAt(coll, Min(MatchId(coll, oid)))

\* result.deletedCount of that call
DeletedCount(coll, oid) == IF MatchId(coll, oid) = {} THEN 0 ELSE 1

\* collection.insertOne(d) when the store assigns id
InsertOne(coll, id, d) == Append(coll, WithId(id, d))

Max(S) == CHOOSE x \in S : \A y \in S : x >= y

Reverse(s) == [i \in 1..Len(s) |-> s[Len(s) + 1 - i]]

\* The documents of coll whose createdAt is in keys, largest createdAt
\* first.  Documents with equal createdAt have no defined order in the
\* store: `late` picks one of the two stable orders.
RECURSIVE ByCreatedAtDesc(_, _, _)
ByCreatedAtDesc(coll, keys, late) ==
    IF keys = {} THEN <<>>
    ELSE LET v == Max(keys)
             At(d) == d.createdAt = v
             same == SelectSeq(coll, At)
         IN  (IF late THEN Reverse(same) ELSE same)
                 \o ByCreatedAtDesc(coll, keys \ {v}, late)

\* cursor.sort({ createdAt: -1 }).toArray()
SortByCreatedAtDesc(coll, late) ==
    ByCreatedAtDesc(coll, {coll[i].createdAt : i \in 1..Len(coll)}, late)

\* Limit keeping one document too many
Limit_OneMore(s, n) == IF Len(s) <= n THEN s ELSE SubSeq(s, 1, n + 1)

\* cursor.limit(n)
Limit(s, n) == IF Len(s) <= n THEN s ELSE SubSeq(s, 1, n)

ItemsLimit == 100

---------------------------------------------------------------------------
(* Requests. *)

Obj(o) == [t |-> "object", o |-> o]

\* const { f } = req.body || {}
Field(body, f) ==
    LET o == IF Truthy(body) THEN body.o ELSE <<>>
    IN  IF f \in DOMAIN o THEN o[f] ELSE Undef

NoReq == [method |-> "none", coll |-> "none", id |-> <<>>, body |-> Undef]
NoDoc == Undef

Request(method, coll, id, body) ==
    [method |-> method, coll |-> coll, id |-> id, body |-> body]

Collections == {"users", "items"}
InvalidIdMsg(c) == IF c = "users" THEN "Invalid user id" ELSE "Invalid item id"
NotFoundMsg(c) == IF c = "users" THEN "User not found" ELSE "Item not found"
DeletedMsg(c) ==
    IF c = "users" THEN "User deleted successfully" ELSE "Item deleted successfully"

\* line 93: the negation of (!email || !name)
UserValid(body) == Truthy(Field(body, "email")) /\ Truthy(Field(body, "name"))

\* lines 104-109: the `user` object
NewUser(body, date) ==
    [email |-> Field(body, "email"),
     name |-> Field(body, "name"),
     role |-> OrElse(Field(body, "role"), Str("staff")),
     createdAt |-> date]

\* ItemValid with !price in place of the typeof test
ItemValid_TruthyPrice(body) ==
    /\ Truthy(Field(body, "name"))
    /\ Truthy(Field(body, "description"))
    /\ Truthy(Field(body, "price"))

\* line 232: the negation of (!name || !description || typeof price !== 'number')
ItemValid(body) ==
    /\ Truthy(Field(body, "name"))
    /\ Truthy(Field(body, "description"))
    /\ TypeOf(Field(body, "price")) = "number"

\* NewItem storing isLarge as submitted, without Boolean()
NewItem_RawIsLarge(body, date) ==
    [name |-> Field(body, "name"),
     description |-> Field(body, "description"),
     price |-> Field(body, "price"),
     category |-> OrElse(Field(body, "category"), Str("Uncategorized")),
     image |-> OrElse(Field(body, "image"), Str("")),
     badge |-> OrElse(Field(body, "badge"), Null),
     badgeColor |-> OrElse(Field(body, "badgeColor"), Null),
     isLarge |-> Field(body, "isLarge"),
     tags |-> IF IsArray(Field(body, "tags")) THEN Field(body, "tags") ELSE Arr(<<>>),
     createdAt |-> date]

\* lines 236-247: the `doc` object
NewItem(body, date) ==
    [name |-> Field(body, "name"),
     description |-> Field(body, "description"),
     price |-> Field(body, "price"),
     category |-> OrElse(Field(body, "category"), Str("Uncategorized")),
     image |-> OrElse(Field(body, "image"), Str("")),
     badge |-> OrElse(Field(body, "badge"), Null),
     badgeColor |-> OrElse(Field(body, "badgeColor"), Null),
     isLarge |-> Bool(Truthy(Field(body, "isLarge"))),
     tags |-> IF IsArray(Field(body, "tags")) THEN Field(body, "tags") ELSE Arr(<<>>),
     createdAt |-> date]

---------------------------------------------------------------------------
(* The pieces every handler shares. *)

Coll(c) == IF c = "users" THEN users ELSE items

\* a store call that has been issued and not yet answered
Call(op) == [op |-> op, res |-> "pending"]

\* the last call of the request was answered
Settle(calls, res) == [calls EXCEPT ![Len(calls)].res = res]

\* res.status(status).json(body), after which the handler returns
Respond(p, status, body) ==
    /\ resp' = [resp EXCEPT ![p] = Append(@, [status |-> status, body |-> body])]
    /\ pc' = [pc EXCEPT ![p] = "done"]

\* catch (err) { next(err) } and the global error handler
ErrorHandler(p) == Respond(p, 500, [error |-> "Internal server error"])

\* Throw issuing the call that threw once more
Throw_Retry(p) ==
    /\ ops' = [ops EXCEPT ![p] = Append(Settle(@, "error"), Call(pc[p]))]
    /\ UNCHANGED <<pc, resp>>

\* an awaited call threw: the handler's catch block runs
Throw(p) ==
    /\ ops' = [ops EXCEPT ![p] = Settle(@, "error")]
    /\ ErrorHandler(p)

\* the handler issues its next store call and is suspended on it
Issue(p, op) ==
    /\ ops' = [ops EXCEPT ![p] = Append(Settle(@, "ok"), Call(op))]
    /\ pc' = [pc EXCEPT ![p] = op]

\* connectToMongo() called from getUsersCollection / getItemsCollection:
\* connected, the handler goes on to its first store call `first`;
\* otherwise client.connect() is invoked and awaited
ConnectToMongo(p, first) ==
    IF isConnected
    THEN /\ ops' = [ops EXCEPT ![p] = Append(@, Call(first))]
         /\ pc' = [pc EXCEPT ![p] = first]
         /\ UNCHANGED connectCalls
    ELSE /\ ops' = [ops EXCEPT ![p] = Append(@, Call("connect"))]
         /\ pc' = [pc EXCEPT ![p] = "connect"]
         /\ connectCalls' = connectCalls + 1

\* the first store call of each route
FirstOp(r) ==
    CASE r.method = "POST" /\ r.coll = "users" -> "findOneByEmail"
      [] r.method = "POST" /\ r.coll = "items" -> "insertOne"
      [] r.method = "LIST" -> "find"
      [] r.method = "GET" -> "findOne"
      [] OTHER -> "deleteOne"

\* new Date(): the clock has not gone back since it was last read
Times == 0..MaxClock
Clock(t) == t >= now /\ now' = t

\* express dispatches a request to a handler.  Handler invocations have no
\* identity of their own: the request takes the first free slot.
Accept(p, r) ==
    /\ server \in {"serverless", "listening"}
    /\ pc[p] = "idle"
    /\ \A q \in Procs : q < p => pc[q] # "idle"
    /\ quota > 0
    /\ quota' = quota - 1
    /\ req' = [req EXCEPT ![p] = r]

---------------------------------------------------------------------------
(* Route handlers up to their first await. *)

\* app.post('/api/users'), lines 89-98
PostUsers(p, body) ==
    /\ Accept(p, Request("POST", "users", <<>>, body))
    /\ IF ~UserValid(body)
       THEN /\ Respond(p, 400, [error |-> "email and name are required"])
            /\ UNCHANGED <<ops, connectCalls>>
       ELSE /\ ConnectToMongo(p, "findOneByEmail")
            /\ UNCHANGED resp
    /\ UNCHANGED <<isConnected, server, users, items, nextId, now, doc>>

\* app.post('/api/items'), lines 228-249; new Date() reads the time t
PostItems(p, body, t) ==
    /\ Accept(p, Request("POST", "items", <<>>, body))
    /\ IF ~ItemValid(body)
       THEN /\ Respond(p, 400,
                    [error |-> "name, description, and numeric price are required"])
            /\ UNCHANGED <<ops, connectCalls, doc, now>>
       ELSE /\ Clock(t)
            /\ doc' = [doc EXCEPT ![p] = NewItem(body, t)]
            /\ ConnectToMongo(p, "insertOne")
            /\ UNCHANGED resp
    /\ UNCHANGED <<isConnected, server, users, items, nextId>>

\* app.get('/api/users'), lines 119-121, and app.get('/api/items'), 173-175
GetList(p, c) ==
    /\ Accept(p, Request("LIST", c, <<>>, Undef))
    /\ ConnectToMongo(p, "find")
    /\ UNCHANGED <<isConnected, server, users, items, nextId, now, doc, resp>>

\* app.get('/api/users/:id'), lines 133-140, and app.get('/api/items/:id'),
\* lines 188-195
GetById(p, c, id) ==
    /\ Accept(p, Request("GET", c, id, Undef))
    /\ IF ~ObjectIdIsValid(id)
       THEN /\ Respond(p, 400, [error |-> InvalidIdMsg(c)])
            /\ UNCHANGED <<ops, connectCalls>>
       ELSE /\ ConnectToMongo(p, "findOne")
            /\ UNCHANGED resp
    /\ UNCHANGED <<isConnected, server, users, items, nextId, now, doc>>

\* app.delete('/api/users/:id'), lines 153-160, and
\* app.delete('/api/items/:id'), lines 208-215
DeleteById(p, c, id) ==
    /\ Accept(p, Request("DELETE", c, id, Undef))
    /\ IF ~ObjectIdIsValid(id)
       THEN /\ Respond(p, 400, [error |-> InvalidIdMsg(c)])
            /\ UNCHANGED <<ops, connectCalls>>
       ELSE /\ ConnectToMongo(p, "deleteOne")
            /\ UNCHANGED resp
    /\ UNCHANGED <<isConnected, server, users, items, nextId, now, doc>>

---------------------------------------------------------------------------
(* Continuations: an awaited call completes (ok) or throws (~ok). *)

\* ConnectDone with the flag set before the await instead of after it
ConnectDone_FlagFirst(p, ok) ==
    /\ pc[p] = "connect"
    /\ isConnected' = TRUE
    /\ IF ok
       THEN Issue(p, FirstOp(req[p])) /\ UNCHANGED resp
       ELSE Throw(p)
    /\ UNCHANGED <<connectCalls, server, users, items, nextId, now, req, doc, quota>>

\* connectToMongo resumes after await client.connect(), lines 61-65, and the
\* handler goes on to its first store call
ConnectDone(p, ok) ==
    /\ pc[p] = "connect"
    /\ IF ok
       THEN /\ isConnected' = TRUE
            /\ Issue(p, FirstOp(req[p]))
            /\ UNCHANGED resp
       ELSE /\ Throw(p)
            /\ UNCHANGED isConnected
    /\ UNCHANGED <<connectCalls, server, users, items, nextId, now, req, doc, quota>>

\* usersCollection.findOne({ email }) answered, lines 99-111; new Date()
\* reads the time t
UsersFindOneByEmailDone(p, ok, t) ==
    /\ pc[p] = "findOneByEmail"
    /\ IF ~ok
       THEN Throw(p) /\ UNCHANGED <<doc, now>>
       ELSE IF MatchEmail(users, Field(req[p].body, "email")) # {}
       THEN /\ ops' = [ops EXCEPT ![p] = Settle(@, "ok")]
            /\ Respond(p, 409, [error |-> "User already exists"])
            /\ UNCHANGED <<doc, now>>
       ELSE /\ Clock(t)
            /\ doc' = [doc EXCEPT ![p] = NewUser(req[p].body, t)]
            /\ Issue(p, "insertOne")
            /\ UNCHANGED resp
    /\ UNCHANGED <<isConnected, connectCalls, server, users, items, nextId,
                   req, quota>>

\* usersCollection.insertOne(user) answered, lines 111-112
UsersInsertOneDone(p, ok) ==
    /\ pc[p] = "insertOne"
    /\ req[p].coll = "users"
    /\ IF ~ok
       THEN Throw(p) /\ UNCHANGED <<users, nextId>>
       ELSE /\ users' = InsertOne(users, GenObjectId(nextId), doc[p])
            /\ nextId' = nextId + 1
            /\ ops' = [ops EXCEPT ![p] = Settle(@, "ok")]
            /\ Respond(p, 201, ToJSON(WithId(GenObjectId(nextId), doc[p])))
    /\ UNCHANGED <<isConnected, connectCalls, server, items, now, req, doc, quota>>

\* itemsCollection.insertOne(doc) answered, lines 250-251
ItemsInsertOneDone(p, ok) ==
    /\ pc[p] = "insertOne"
    /\ req[p].coll = "items"
    /\ IF ~ok
       THEN Throw(p) /\ UNCHANGED <<items, nextId>>
       ELSE /\ items' = InsertOne(items, GenObjectId(nextId), doc[p])
            /\ nextId' = nextId + 1
            /\ ops' = [ops EXCEPT ![p] = Settle(@, "ok")]
            /\ Respond(p, 201, ToJSON(WithId(GenObjectId(nextId), doc[p])))
    /\ UNCHANGED <<isConnected, connectCalls, server, users, now, req, doc, quota>>

\* res.json(array of documents)
ListJSON(s) == [i \in 1..Len(s) |-> ToJSON(s[i])]

\* usersCollection.find({}).sort({ createdAt: -1 }).toArray() answered,
\* lines 122-126
UsersFindDone(p, ok, late) ==
    /\ pc[p] = "find"
    /\ req[p].coll = "users"
    /\ IF ~ok
       THEN Throw(p)
       ELSE /\ ops' = [ops EXCEPT ![p] = Settle(@, "ok")]
            /\ Respond(p, 200, ListJSON(SortByCreatedAtDesc(users, late)))
    /\ UNCHANGED <<isConnected, connectCalls, server, users, items, nextId, now,
                   req, doc, quota>>

\* itemsCollection.find({}).sort({ createdAt: -1 }).limit(100).toArray()
\* answered, lines 176-181
ItemsFindDone(p, ok, late) ==
    /\ pc[p] = "find"
    /\ req[p].coll = "items"
    /\ IF ~ok
       THEN Throw(p)
       ELSE /\ ops' = [ops EXCEPT ![p] = Settle(@, "ok")]
            /\ Respond(p, 200,
                    ListJSON(Limit(SortByCreatedAtDesc(items, late), ItemsLimit)))
    /\ UNCHANGED <<isConnected, connectCalls, server, users, items, nextId, now,
                   req, doc, quota>>

\* collection.findOne({ _id: new ObjectId(id) }) answered, lines 141-146 and
\* 196-201
FindOneDone(p, ok) ==
    /\ pc[p] = "findOne"
    /\ IF ~ok
       THEN Throw(p)
       ELSE LET c == req[p].coll
                m == MatchId(Coll(c), NewObjectId(req[p].id))
            IN  /\ ops' = [ops EXCEPT ![p] = Settle(@, "ok")]
                /\ IF m = {}
                   THEN Respond(p, 404, [error |-> NotFoundMsg(c)])
                   ELSE Respond(p, 200, ToJSON(Coll(c)[Min(m)]))
    /\ UNCHANGED <<isConnected, connectCalls, server, users, items, nextId, now,
                   req, doc, quota>>

\* collection.deleteOne({ _id: new ObjectId(id) }) answered, lines 161-166
\* and 216-221
DeleteOneDone(p, ok) ==
    /\ pc[p] = "deleteOne"
    /\ IF ~ok
       THEN Throw(p) /\ UNCHANGED <<users, items>>
       ELSE LET c == req[p].coll
                oid == NewObjectId(req[p].id)
            IN  /\ users' = IF c = "users" THEN DeleteOne(users, oid) ELSE users
                /\ items' = IF c = "items" THEN DeleteOne(items, oid) ELSE items
                /\ ops' = [ops EXCEPT ![p] = Settle(@, "ok")]
                /\ IF DeletedCount(Coll(c), oid) = 0
                   THEN Respond(p, 404, [error |-> NotFoundMsg(c)])
                   ELSE Respond(p, 200,
                            [message |-> DeletedMsg(c), deletedId |-> req[p].id])
    /\ UNCHANGED <<isConnected, connectCalls, server, nextId, now, req, doc, quota>>

\* the response has been sent and the handler has returned: the slot is
\* free for the next request, when there is one to come
Finish(p) ==
    /\ pc[p] = "done"
    /\ quota > 0
    /\ pc' = [pc EXCEPT ![p] = "idle"]
    /\ req' = [req EXCEPT ![p] = NoReq]
    /\ doc' = [doc EXCEPT ![p] = NoDoc]
    /\ ops' = [ops EXCEPT ![p] = <<>>]
    /\ resp' = [resp EXCEPT ![p] = <<>>]
    /\ UNCHANGED <<isConnected, connectCalls, server, users, items, nextId, now,
                   quota>>

---------------------------------------------------------------------------
(* start(), lines 265-281: run at load unless VERCEL = '1'. *)

\* await client.connect() of line 268 answered; a failure is fatal
StartConnectDone(ok) ==
    /\ server = "connecting"
    /\ server' = IF ok THEN "pinging" ELSE "exited"
    /\ UNCHANGED <<isConnected, connectCalls, users, items, nextId, now,
                   pc, req, doc, ops, resp, quota>>

\* await client.db('admin').command({ ping: 1 }) answered, then app.listen
StartPingDone(ok) ==
    /\ server = "pinging"
    /\ server' = IF ok THEN "listening" ELSE "exited"
    /\ UNCHANGED <<isConnected, connectCalls, users, items, nextId, now,
                   pc, req, doc, ops, resp, quota>>

---------------------------------------------------------------------------
(* Inputs. *)

EmailA == Str("ann@chef.io")
EmailB == Str("bob@chef.io")

UserBodies ==
    { Obj([email |-> EmailA, name |-> Str("Ann"), role |-> Str("")]),
      Obj([email |-> EmailB, name |-> Str("Bob"), role |-> Str("chef")]),
      Obj([email |-> Str(""), name |-> Str("Ann")]),
      Obj([email |-> EmailB]),
      Undef }

ItemBodies ==
    { Obj([name |-> Str("Tacos"), description |-> Str("Corn tortilla"),
           price |-> Num(8)]),
      Obj([name |-> Str("Ramen"), description |-> Str("Pork broth"),
           price |-> Num(12), category |-> Str("Soup"), image |-> Str("r.png"),
           badge |-> Str("New"), badgeColor |-> Str("red"),
           isLarge |-> Bool(TRUE), tags |-> Arr(<<"hot">>)]),
      Obj([name |-> Str("Water"), description |-> Str("Still"),
           price |-> Num(0), category |-> Str(""), image |-> Null,
           badge |-> Num(0), isLarge |-> Str("yes"), tags |-> Str("cold")]),
      Obj([description |-> Str("No name"), price |-> Num(3)]),
      Obj([name |-> Str("Soup"), description |-> Str(""), price |-> Num(3)]),
      Obj([name |-> Str("Pie"), description |-> Str("Apple"), price |-> Str("3")]) }

\* the hex string of the n-th ObjectId, in lower and in upper case
LowerId(n) == ToHexString(GenObjectId(n))
UpperId(n) == [i \in 1..OidLen |-> UpperHex[GenObjectId(n)[i] + 1]]

IdParams ==
    { UpperId(FirstId),
      LowerId(FirstId + 1),
      <<"a", "b", "c">>,
      [LowerId(FirstId) EXCEPT ![1] = "g"] }

---------------------------------------------------------------------------
(* Specifications. *)

\* The store outlives the process: at load it holds what earlier runs of the
\* same handlers inserted.  SeedUser and SeedItem(i) are such documents.
SeedUser ==
    WithId(GenObjectId(FirstId),
           NewUser(Obj([email |-> EmailA, name |-> Str("Ann")]), -1))

SeedItem(i) ==
    WithId(GenObjectId(FirstId + i - 1),
           NewItem(Obj([name |-> Str("Tacos"), description |-> Str("Corn tortilla"),
                        price |-> Num(8)]),
                   0 - 1 - ((i * 7) % 5)))

SeedItems(n) == [i \in 1..n |-> SeedItem(i)]

\* the module has been loaded (lines 1-281): no handler is running, the
\* flag is false, and start() has invoked client.connect() unless
\* VERCEL = '1'
Loaded ==
    /\ isConnected = FALSE
    /\ server \in {"serverless", "connecting"}
    /\ connectCalls = IF server = "connecting" THEN 1 ELSE 0
    /\ pc = [p \in Procs |-> "idle"]
    /\ req = [p \in Procs |-> NoReq]
    /\ doc = [p \in Procs |-> NoDoc]
    /\ ops = [p \in Procs |-> <<>>]
    /\ resp = [p \in Procs |-> <<>>]
    /\ hist = <<>>

\* the requests a run accepts: start(), where it runs, counts as one of
\* the n pieces of work
Budget(n) == IF server = "connecting" THEN n - 1 ELSE n

Init ==
    /\ Loaded
    /\ users = <<SeedUser>>
    /\ items = SeedItems(1)
    /\ nextId = FirstId + 1
    /\ now = MaxClock
    /\ quota = Budget(MaxRequests)

\* requests are handled concurrently in every slot
Next ==
    \/ \E p \in Procs, b \in UserBodies : PostUsers(p, b) /\ UNCHANGED hist
    \/ \E p \in Procs, b \in ItemBodies, t \in Times :
          PostItems(p, b, t) /\ UNCHANGED hist
    \/ \E p \in Procs, c \in Collections : GetList(p, c) /\ UNCHANGED hist
    \/ \E p \in Procs, c \in Collections, id \in IdParams :
          GetById(p, c, id) /\ UNCHANGED hist
    \/ \E p \in Procs, c \in Collections, id \in IdParams :
          DeleteById(p, c, id) /\ UNCHANGED hist
    \/ \E p \in Procs, ok \in BOOLEAN : ConnectDone(p, ok) /\ UNCHANGED hist
    \/ \E p \in Procs, ok \in BOOLEAN, t \in Times :
          UsersFindOneByEmailDone(p, ok, t) /\ UNCHANGED hist
    \/ \E p \in Procs, ok \in BOOLEAN : UsersInsertOneDone(p, ok) /\ UNCHANGED hist
    \/ \E p \in Procs, ok \in BOOLEAN : ItemsInsertOneDone(p, ok) /\ UNCHANGED hist
    \/ \E p \in Procs, ok \in BOOLEAN, late \in BOOLEAN :
          UsersFindDone(p, ok, late) /\ UNCHANGED hist
    \/ \E p \in Procs, ok \in BOOLEAN, late \in BOOLEAN :
          ItemsFindDone(p, ok, late) /\ UNCHANGED hist
    \/ \E p \in Procs, ok \in BOOLEAN : FindOneDone(p, ok) /\ UNCHANGED hist
    \/ \E p \in Procs, ok \in BOOLEAN : DeleteOneDone(p, ok) /\ UNCHANGED hist
    \/ \E p \in Procs : Finish(p) /\ UNCHANGED hist
    \/ \E ok \in BOOLEAN : StartConnectDone(ok) /\ UNCHANGED hist
    \/ \E ok \in BOOLEAN : StartPingDone(ok) /\ UNCHANGED hist

Spec == Init /\ [][Next]_vars

\* What a client of the users resource sees of a request handled in slot p:
\* the request, the status of its response, and the users collection when
\* the request was accepted and when it was answered.  With one slot
\* nothing else runs in between.
Observe(p) ==
    hist' = IF pc[p] # "done" /\ pc'[p] = "done" /\ req'[p].coll = "users"
            THEN Append(hist, [req |-> req'[p],
                               status |-> resp'[p][1].status,
                               before |-> users,
                               after |-> users'])
            ELSE hist

\* requests are handled one after the other, in slot 1
NextSeq ==
    \/ \E b \in UserBodies : PostUsers(1, b) /\ Observe(1)
    \/ \E b \in ItemBodies, t \in Times : PostItems(1, b, t) /\ Observe(1)
    \/ \E c \in Collections : GetList(1, c) /\ Observe(1)
    \/ \E c \in Collections, id \in IdParams : DeleteById(1, c, id) /\ Observe(1)
    \/ \E ok \in BOOLEAN : ConnectDone(1, ok) /\ Observe(1)
    \/ \E ok \in BOOLEAN, t \in Times :
          UsersFindOneByEmailDone(1, ok, t) /\ Observe(1)
    \/ \E ok \in BOOLEAN : UsersInsertOneDone(1, ok) /\ Observe(1)
    \/ \E ok \in BOOLEAN : ItemsInsertOneDone(1, ok) /\ Observe(1)
    \/ \E ok \in BOOLEAN, late \in BOOLEAN : UsersFindDone(1, ok, late) /\ Observe(1)
    \/ \E ok \in BOOLEAN, late \in BOOLEAN : ItemsFindDone(1, ok, late) /\ Observe(1)
    \/ \E ok \in BOOLEAN : DeleteOneDone(1, ok) /\ Observe(1)
    \/ Finish(1) /\ UNCHANGED hist
    \/ \E ok \in BOOLEAN : StartConnectDone(ok) /\ UNCHANGED hist
    \/ \E ok \in BOOLEAN : StartPingDone(ok) /\ UNCHANGED hist

InitSeq ==
    /\ Loaded
    /\ users = <<SeedUser>>
    /\ items = SeedItems(1)
    /\ nextId = FirstId + 1
    /\ now = 0
    /\ quota = Budget(SeqRequests)

SpecSeq == InitSeq /\ [][NextSeq]_vars

\* the items collection holds about as many documents as the list returns
InitList ==
    /\ Loaded
    /\ users = <<SeedUser>>
    /\ \E n \in (ItemsLimit - ListSlack)..(ItemsLimit + ListSlack) :
          /\ items = SeedItems(n)
          /\ nextId = FirstId + n
    /\ now = MaxClock
    /\ quota = Budget(ListRequests)

SpecList == InitList /\ [][NextSeq]_vars

---------------------------------------------------------------------------
(* Vocabulary of the properties. *)

Done(p) == pc[p] = "done"
Status(p) == resp[p][1].status
Body(p) == resp[p][1].body
Emails(coll) == {coll[i].email : i \in 1..Len(coll)}
Ids(coll) == {coll[i]._id : i \in 1..Len(coll)}
Range(s) == {s[i] : i \in 1..Len(s)}
CountEmail(coll, e) == Cardinality({i \in 1..Len(coll) : coll[i].email = e})

\* the store calls of the request in slot p that threw
Failed(calls) == {i \in 1..Len(calls) : calls[i].res = "error"}

---------------------------------------------------------------------------
(* C1 *)

\* C1: no two stored user records have the same email, in every reachable
\* state, whatever the interleaving of the requests.
C1_EmailUnique ==
    \A i, j \in 1..Len(users) : users[i].email = users[j].email => i = j

---------------------------------------------------------------------------
(* C3 *)

\* C3: client.connect() is invoked at most once in the life of the process.
C3_ConnectAtMostOnce == connectCalls <= 1

---------------------------------------------------------------------------
(* C4 *)

\* a creation body the claim calls invalid
C4_BadUser(r) ==
    /\ r.method = "POST" /\ r.coll = "users"
    /\ (~Truthy(Field(r.body, "email")) \/ ~Truthy(Field(r.body, "name")))

C4_BadItem(r) ==
    /\ r.method = "POST" /\ r.coll = "items"
    /\ \/ ~Truthy(Field(r.body, "name"))
       \/ ~Truthy(Field(r.body, "description"))
       \/ Field(r.body, "price").t # "number"

\* the request in slot p was answered 400 without any store call
C4_Rejected(p) ==
    /\ Done(p)
    /\ Len(resp[p]) = 1
    /\ Status(p) = 400
    /\ ops[p] = <<>>

\* the step that accepts an invalid creation request touches no collection
\* and invokes no connect
C4_Step ==
    \A p \in Procs :
        (req'[p] # req[p] /\ (C4_BadUser(req'[p]) \/ C4_BadItem(req'[p])))
            => /\ users' = users
               /\ items' = items
               /\ nextId' = nextId
               /\ connectCalls' = connectCalls
               /\ isConnected' = isConnected

\* C4: a POST /api/items without a truthy name, without a truthy description
\* or with a price that is not a number, and a POST /api/users without a
\* truthy email or name, is answered 400, issues no store call (no connect,
\* no findOne, no insertOne) and leaves both collections unchanged.
C4_ValidatedBeforeStore ==
    /\ [](\A p \in Procs :
            (C4_BadUser(req[p]) \/ C4_BadItem(req[p])) => C4_Rejected(p))
    /\ [][C4_Step]_vars

\* an item whose price is a string was rejected while the store is connected
C4_Witness ==
    \E p \in Procs :
        /\ C4_BadItem(req[p])
        /\ Truthy(Field(req[p].body, "name"))
        /\ Truthy(Field(req[p].body, "description"))
        /\ C4_Rejected(p)
        /\ isConnected

---------------------------------------------------------------------------
(* C5 *)

C5_HexChars ==
    {"0", "1", "2", "3", "4", "5", "6", "7", "8", "9",
     "a", "b", "c", "d", "e", "f", "A", "B", "C", "D", "E", "F"}

\* a request by id whose id is not 24 hex digits
C5_BadId(r) ==
    /\ r.method \in {"GET", "DELETE"}
    /\ ~(Len(r.id) = 24 /\ \A i \in 1..Len(r.id) : r.id[i] \in C5_HexChars)

C5_Rejected(p) ==
    /\ Done(p)
    /\ Len(resp[p]) = 1
    /\ Status(p) = 400
    /\ ops[p] = <<>>

C5_Step ==
    \A p \in Procs :
        (req'[p] # req[p] /\ C5_BadId(req'[p]))
            => /\ users' = users
               /\ items' = items
               /\ connectCalls' = connectCalls
               /\ isConnected' = isConnected

\* C5: GET and DELETE on /api/users/:id and /api/items/:id with an id that
\* is not a valid store identifier are answered 400 (never 404 or 500),
\* connected or not, without any store call and without changing a
\* collection.
C5_MalformedIdIs400 ==
    /\ [](\A p \in Procs : C5_BadId(req[p]) => C5_Rejected(p))
    /\ [][C5_Step]_vars

\* a 24-character id with a non-hex character was rejected on DELETE while
\* another request is still waiting for the connection
C5_Witness ==
    \E p, q \in Procs :
        /\ req[p].method = "DELETE"
        /\ Len(req[p].id) = 24
        /\ C5_BadId(req[p])
        /\ C5_Rejected(p)
        /\ pc[q] = "connect"
        /\ ~isConnected

---------------------------------------------------------------------------
(* C6 *)

CollNext(c) == IF c = "users" THEN users' ELSE items'

\* slot p's awaited call `op` is answered in this step, and not by a throw
Answered(p, op) ==
    /\ pc[p] = op
    /\ pc'[p] = "done"
    /\ resp'[p][1].status # 500

\* deleteOne is answered: 404 and nothing changes when no record has the id;
\* otherwise 200 with the id of the request, and exactly that record goes
C6_DeleteStep(p) ==
    Answered(p, "deleteOne") =>
        LET c == req[p].coll
            oid == NewObjectId(req[p].id)
            Keep(d) == d._id # oid
        IN  IF oid \notin Ids(Coll(c))
            THEN /\ resp'[p][1].status = 404
                 /\ users' = users
                 /\ items' = items
            ELSE /\ resp'[p][1].status = 200
                 /\ resp'[p][1].body.deletedId = req[p].id
                 /\ CollNext(c) = SelectSeq(Coll(c), Keep)
                 /\ Len(CollNext(c)) = Len(Coll(c)) - 1
                 /\ \A o \in Collections \ {c} : CollNext(o) = Coll(o)

\* findOne by id is answered 404 exactly when no record has the id
C6_GetStep(p) ==
    Answered(p, "findOne") =>
        (resp'[p][1].status = 404
            <=> NewObjectId(req[p].id) \notin Ids(Coll(req[p].coll)))

\* an id the store has handed out and that is in no record stays out
C6_NoReuse ==
    \A c \in Collections, n \in FirstId..(nextId - 1) :
        GenObjectId(n) \notin Ids(Coll(c)) => GenObjectId(n) \notin Ids(CollNext(c))

\* C6: DELETE /:id with a valid id of no stored record is answered 404 and
\* changes nothing; with the id of a stored record it is answered 200 with
\* that id as deletedId and removes exactly that record; the id is never
\* used again, so every later GET /:id on it is answered 404.
C6_DeleteThenGone ==
    [][/\ \A p \in Procs : C6_DeleteStep(p) /\ C6_GetStep(p)
       /\ C6_NoReuse]_vars

\* GET on the id of the seeded record is answered 404: the record was deleted
C6_Witness ==
    \E p \in Procs, c \in Collections :
        /\ Done(p)
        /\ req[p] = Request("GET", c, UpperId(FirstId), Undef)
        /\ Status(p) = 404

---------------------------------------------------------------------------
(* C7 *)

\* an item-creation request the claim calls valid
C7_ValidItem(r) ==
    /\ r.method = "POST" /\ r.coll = "items"
    /\ Truthy(Field(r.body, "name"))
    /\ Truthy(Field(r.body, "description"))
    /\ Field(r.body, "price").t = "number"

C7_Optional == {"category", "image", "badge", "badgeColor", "isLarge", "tags"}
C7_Submitted(r) == DOMAIN r.body.o

\* the response carries an id the store assigned and a creation time
C7_Stamped(b) ==
    /\ \E n \in FirstId..(nextId - 1) : b._id = ToHexString(GenObjectId(n))
    /\ b.createdAt \in Times

\* the response repeats every field of the body as submitted
C7_Echo(r, b) == \A f \in C7_Submitted(r) : b[f] = r.body.o[f]

\* the optional fields that were not submitted have their defaults
C7_Defaults(r, b) ==
    /\ "category" \notin C7_Submitted(r) => b.category = Str("Uncategorized")
    /\ "tags" \notin C7_Submitted(r) => b.tags = Arr(<<>>)
    /\ "isLarge" \notin C7_Submitted(r) => b.isLarge = Bool(FALSE)

\* what the response holds for each field: the required ones as submitted,
\* a truthy optional one as submitted and a falsy one replaced by its
\* default, isLarge as a boolean, tags as submitted only when an array
C7_Normalised(r, b) ==
    LET in(f) == Field(r.body, f)
    IN  /\ b.name = in("name")
        /\ b.description = in("description")
        /\ b.price = in("price")
        /\ b.category = IF Truthy(in("category")) THEN in("category")
                        ELSE Str("Uncategorized")
        /\ b.image = IF Truthy(in("image")) THEN in("image") ELSE Str("")
        /\ b.badge = IF Truthy(in("badge")) THEN in("badge") ELSE Null
        /\ b.badgeColor = IF Truthy(in("badgeColor")) THEN in("badgeColor") ELSE Null
        /\ b.isLarge = Bool(Truthy(in("isLarge")))
        /\ b.tags = IF in("tags").t = "array" THEN in("tags") ELSE Arr(<<>>)

\* every answered GET of the created item returns the record of the 201
C7_SameOnGet(p) ==
    \A q \in Procs :
        (/\ Done(q)
         /\ req[q].method = "GET" /\ req[q].coll = "items"
         /\ Len(req[q].id) = 24
         /\ Status(q) = 200
         /\ ToHexString(NewObjectId(req[q].id)) = Body(p)._id)
            => Body(q) = Body(p)

\* the insert stores the record that the 201 returns
C7_InsertStep(p) ==
    (Answered(p, "insertOne") /\ req[p].coll = "items") =>
        \E i \in 1..Len(items') :
            /\ ToJSON(items'[i]) = resp'[p][1].body
            /\ items'[i]._id \notin Ids(items)

\* a GET of a stored item returns it
C7_GetStep(p) ==
    (Answered(p, "findOne") /\ req[p].coll = "items") =>
        \A i \in 1..Len(items) :
            items[i]._id = NewObjectId(req[p].id)
                => /\ resp'[p][1].status = 200
                   /\ resp'[p][1].body = ToJSON(items[i])

\* a stored item is never modified: it stays as it is or it goes
C7_Immutable ==
    \A i \in 1..Len(items) :
        \/ items[i] \in Range(items')
        \/ items[i]._id \notin Ids(items')

\* C7 as stated: a valid POST /api/items is answered 201 with a record that
\* echoes every submitted field, whatever its value, plus a store-assigned id
\* and createdAt; absent optional fields have their defaults; a later GET of
\* that id returns the identical record.
C7_EchoesEverySubmittedField ==
    \A p \in Procs :
        (Done(p) /\ C7_ValidItem(req[p]) /\ Status(p) # 500)
            => /\ Status(p) = 201
               /\ C7_Stamped(Body(p))
               /\ C7_Echo(req[p], Body(p))
               /\ C7_Defaults(req[p], Body(p))
               /\ C7_SameOnGet(p)

\* C7 amended: a valid POST /api/items is answered 201 with a record that
\* has name, description and price as submitted, each of category, image,
\* badge and badgeColor as submitted when truthy and otherwise its default
\* ("Uncategorized", "", null, null), isLarge as the boolean value of what
\* was submitted, tags as submitted when an array and otherwise empty, plus
\* a store-assigned id and createdAt; the record is stored as returned,
\* never modified, and a GET of that id returns the identical record until
\* it is deleted.
C7_CreateItemRoundTrip ==
    /\ [](\A p \in Procs :
            (Done(p) /\ C7_ValidItem(req[p]) /\ Status(p) # 500)
                => /\ Status(p) = 201
                   /\ C7_Stamped(Body(p))
                   /\ C7_Normalised(req[p], Body(p))
                   /\ C7_SameOnGet(p))
    /\ [][/\ \A p \in Procs : C7_InsertStep(p) /\ C7_GetStep(p)
          /\ C7_Immutable]_vars

\* an item submitted with falsy and mistyped optional fields was created,
\* and a GET of its id has been answered
C7_Witness ==
    \E p, q \in Procs :
        /\ Done(p) /\ C7_ValidItem(req[p]) /\ Status(p) = 201
        /\ Field(req[p].body, "isLarge") = Str("yes")
        /\ Done(q) /\ req[q].method = "GET" /\ req[q].coll = "items"
        /\ Status(q) = 200
        /\ Body(q)._id = Body(p)._id

---------------------------------------------------------------------------
(* C9 *)

\* a call of the request in slot p has thrown: it is the last call the
\* request issued, and the request has been answered once, with the generic 500
C9_NoRetry(p) ==
    \A i \in Failed(ops[p]) :
        /\ i = Len(ops[p])
        /\ Done(p)
        /\ Len(resp[p]) = 1
        /\ Status(p) = 500
        /\ Body(p) = [error |-> "Internal server error"]

\* the step in which a call throws changes no collection
C9_FailStep ==
    \A p \in Procs :
        Failed(ops'[p]) # Failed(ops[p])
            => /\ users' = users
               /\ items' = items
               /\ nextId' = nextId

---------------------------------------------------------------------------
(* C10 *)

\* slot p's awaited client.connect() is answered in this step with `res`
C10_ConnectAnswered(p, res) ==
    /\ pc[p] = "connect"
    /\ pc'[p] # "connect"
    /\ ops'[p][Len(ops[p])] = [op |-> "connect", res |-> res]

C10_Step ==
    /\ isConnected => isConnected'
    /\ isConnected' # isConnected => \E p \in Procs : C10_ConnectAnswered(p, "ok")
    /\ \A p \in Procs :
          /\ C10_ConnectAnswered(p, "ok") => isConnected'
          /\ C10_ConnectAnswered(p, "error") => isConnected' = isConnected

\* C10: isConnected starts false; it changes only from false to true, in the
\* step in which a client.connect() awaited in connectToMongo succeeds; a
\* connect that fails leaves the flag as it is; once true it stays true.
C10_FlagOnlyRises ==
    /\ ~isConnected
    /\ [][C10_Step]_vars

\* the connect of one request failed, the connect of another succeeded and
\* set the flag
C10_Witness ==
    \E p, q \in Procs :
        /\ Failed(ops[p]) = {1}
        /\ ops[p][1].op = "connect"
        /\ Len(ops[q]) >= 1
        /\ ops[q][1] = [op |-> "connect", res |-> "ok"]
        /\ isConnected

---------------------------------------------------------------------------
(* C2 *)

\* an observed POST /api/users with a non-empty email and name
C2_Create(h) ==
    /\ h.req.method = "POST"
    /\ Truthy(Field(h.req.body, "email"))
    /\ Truthy(Field(h.req.body, "name"))

\* an observed request after which no user with email e is left, though
\* there was one before: a delete of that user
C2_Removed(h, e) == e \in Emails(h.before) /\ e \notin Emails(h.after)

\* the i-th and the j-th observed requests are two creations with the same
\* email, handled one after the other without a store failure, no user with
\* that email before the first and no delete of that user in between
C2_Pair(i, j) ==
    LET e == Field(hist[i].req.body, "email")
    IN  /\ i < j
        /\ C2_Create(hist[i])
        /\ C2_Create(hist[j])
        /\ Field(hist[j].req.body, "email") = e
        /\ hist[i].status # 500
        /\ hist[j].status # 500
        /\ e \notin Emails(hist[i].before)
        /\ \A k \in (i + 1)..(j - 1) : ~C2_Removed(hist[k], e)

\* C2: of two POST /api/users with the same non-empty email and name handled
\* one after the other (no user with that email before, no delete of that
\* user in between, no store failure) the first is answered 201, the second
\* 409 without inserting, and users then holds exactly one record with that
\* email.
C2_SecondCreateIs409 ==
    \A i, j \in 1..Len(hist) :
        C2_Pair(i, j)
            => /\ hist[i].status = 201
               /\ hist[j].status = 409
               /\ hist[j].after = hist[j].before
               /\ CountEmail(hist[j].after, Field(hist[j].req.body, "email")) = 1

\* two creations with the same new email have been answered, and a request
\* for another user was handled between them
C2_Witness ==
    /\ Len(hist) = 3
    /\ C2_Pair(1, 3)
    /\ hist[3].status = 409

---------------------------------------------------------------------------
(* C8 *)

C8_Sorted(r) == \A i \in 1..(Len(r) - 1) : r[i].createdAt >= r[i + 1].createdAt

\* r holds n distinct records of coll, and no record of coll left out of r
\* is newer than one in r
C8_NewestOf(r, coll, n) ==
    LET returned == Range(r)
        stored == [k \in 1..Len(coll) |-> ToJSON(coll[k])]
    IN  /\ Len(r) = n
        /\ Cardinality(returned) = n
        /\ returned \subseteq Range(stored)
        /\ \A k \in 1..Len(coll) :
              stored[k] \notin returned
                  => \A i \in 1..Len(r) : coll[k].createdAt <= r[i].createdAt

\* C8: GET /api/users returns all stored users and GET /api/items the
\* min(100, number of stored items) items with the largest createdAt, never
\* more than 100, each list ordered by createdAt descending.
C8_ListsNewestFirst ==
    \A p \in Procs :
        (Done(p) /\ req[p].method = "LIST" /\ Status(p) = 200)
            => /\ C8_Sorted(Body(p))
               /\ req[p].coll = "users"
                    => C8_NewestOf(Body(p), users, Len(users))
               /\ req[p].coll = "items"
                    => /\ Len(Body(p)) <= 100
                       /\ C8_NewestOf(Body(p), items,
                                      IF Len(items) < 100 THEN Len(items) ELSE 100)

\* more than 100 items are stored, the list holds 100 of them, and an item
\* created by this process is ahead of the older ones
C8_Witness ==
    \E p \in Procs :
        /\ Done(p) /\ req[p].method = "LIST" /\ req[p].coll = "items"
        /\ Status(p) = 200
        /\ Len(items) > 100
        /\ Len(Body(p)) = 100
        /\ Body(p)[1].createdAt >= 0
        /\ Body(p)[2].createdAt < 0

===========================================================================
